---- MODULE Spec2Model ----
(***************************************************************************)
(* The API-binding generator py-moera-api (pymoeraapi.py) as a state       *)
(* machine: the structure analyzer (scan_body_usage, scan_output_usage),   *)
(* the structure emitter (generate_structures) and the files the run       *)
(* leaves behind.                                                          *)
(*                                                                         *)
(* Names are strings.  A field is the record [struct, type]: struct = ""   *)
(* stands for a field without a 'struct' key, type = "" for a field        *)
(* without a 'type' key.  The requests of all objects are one flat         *)
(* sequence, in document order.  A file is the sequence of the items       *)
(* written to it; an item is the record [kind, name, params].              *)
(***************************************************************************)
EXTENDS Integers, Sequences, FiniteSets, TLC

VARIABLES
    api,        \* the loaded specification document (read_api)
    structs,    \* scan_structures' dict: name -> Structure
    pc,         \* the statement generate_types is at
    opened,     \* the output files opened (created or truncated) so far
    tfile,      \* items written to types.py
    sfile,      \* items written to schemas.py
    afile,      \* items written to node.py
    stdout,     \* names printed by the dependency-loop diagnostic
    error,      \* the fatal condition the run stopped with, "" if none
    status,     \* the exit status: -1 while running
    sent,       \* the requests a generated stub has handed to requests.request
    caller,     \* the fields of a Caller object (caller.py, lines 77-81)
    outcome,    \* what the calls of Caller.call have returned or raised
    prior       \* the artifacts and exit of the earlier runs on this document

vars == <<api, structs, pc, opened, tfile, sfile, afile, stdout, error, status,
          sent, caller, outcome, prior>>

----------------------------------------------------------------------------
(* Bounds of the input documents.                                          *)

\* number of declared structures besides Body
NStructs == 3
\* number of declarations of a document: struct and scalar fields, requests
\* with a response, and the declaration of Body
MaxDecls == 3

AllNames == <<"A", "B", "C", "D", "E">>
StructNames == {AllNames[i] : i \in 1..NStructs}
\* the order in which a document declares its structures, Body last
DeclOrder == [i \in 1..(NStructs + 1) |-> IF i <= NStructs THEN AllNames[i] ELSE "Body"]
Targets == StructNames \cup {"Body"}

RECURSIVE SubsetsUpTo(_, _)
SubsetsUpTo(S, k) ==
    IF k = 0 THEN {{}}
    ELSE LET R == SubsetsUpTo(S, k - 1)
         IN  R \cup {T \cup {x} : T \in R, x \in S}

Decl(kind, s, t) == [kind |-> kind, s |-> s, t |-> t]
Declarations ==
    {Decl("field", s, t) : s \in StructNames, t \in Targets}
    \cup {Decl("scalar", s, t) : s \in StructNames, t \in {"Bogus"}}
    \cup {Decl("out", s, t) : s \in Targets, t \in {"single", "array"}}
    \cup {Decl("out", "", "blob"), Decl("body", "Body", "")}

Field(struct, type) == [struct |-> struct, type |-> type]

\* the fields of structure s in a document with declarations D: its struct
\* fields in declaration order of their targets, then its scalar field
FieldsOf(D, s) ==
    LET refs == SelectSeq(DeclOrder, LAMBDA t : Decl("field", s, t) \in D)
    IN  [i \in 1..Len(refs) |-> Field(refs[i], "")]
        \o (IF Decl("scalar", s, "Bogus") \in D THEN <<Field("", "Bogus")>> ELSE <<>>)

Out(kind, struct, array) == [kind |-> kind, struct |-> struct, array |-> array]
OutOrder ==
    <<Out("blob", "", FALSE)>>
    \o [i \in 1..(2 * (NStructs + 1)) |->
          Out("struct", DeclOrder[(i + 1) \div 2], i % 2 = 0)]

Document(D) ==
    LET declared == SelectSeq(DeclOrder,
                              LAMBDA n : n # "Body" \/ Decl("body", "Body", "") \in D)
    IN  [structures |-> [i \in 1..Len(declared) |->
                           [name |-> declared[i], fields |-> FieldsOf(D, declared[i])]],
         requests |-> SelectSeq(OutOrder,
                         LAMBDA o : \/ o.kind = "blob" /\ Decl("out", "", "blob") \in D
                                    \/ o.kind = "struct" /\
                                       Decl("out", o.struct,
                                            IF o.array THEN "array" ELSE "single") \in D)]

Documents == {Document(D) : D \in SubsetsUpTo(Declarations, MaxDecls)}

\* the documents without scalar fields: the analyzer reads struct fields and
\* responses only
ScanDocuments ==
    {Document(D) : D \in SubsetsUpTo({d \in Declarations : d.kind # "scalar"},
                                     MaxDecls)}

----------------------------------------------------------------------------
(* class Structure                                                         *)

\* Structure.__init__: depends lists the 'struct' of every field that has one
Depends(data) ==
    LET refs == SelectSeq(data.fields, LAMBDA f : f.struct # "")
    IN  [i \in 1..Len(refs) |-> refs[i].struct]

Structure(data) ==
    [data |-> data, depends |-> Depends(data), generated |-> FALSE,
     uses_body |-> FALSE, output |-> FALSE, output_array |-> FALSE]

\* the keys of the dict structs, in insertion order (structs.values())
Names(doc) == [i \in 1..Len(doc.structures) |-> doc.structures[i].name]

Range(q) == {q[i] : i \in 1..Len(q)}

\* scan_structures, the dict comprehension
NewStructs(doc) ==
    [n \in Range(Names(doc)) |->
        Structure(doc.structures[CHOOSE i \in 1..Len(doc.structures) :
                                    doc.structures[i].name = n])]

Generic(st, s) == st[s].uses_body /\ st[s].output

----------------------------------------------------------------------------
(* scan_body_usage                                                         *)

\* a defect of line 269: a structure with any struct field is seeded
BodySeedAnyStruct(st) ==
    [s \in DOMAIN st |->
        IF Len(st[s].depends) > 0
        THEN [st[s] EXCEPT !.uses_body = TRUE] ELSE st[s]]

\* the seeding loop
BodySeed(st) ==
    [s \in DOMAIN st |->
        IF "Body" \in Range(st[s].depends)
        THEN [st[s] EXCEPT !.uses_body = TRUE] ELSE st[s]]

\* a defect of the inner for-loop: only the first dependency is looked at
BodyDepFirstOnly(st, s) ==
    /\ Len(st[s].depends) > 0
    /\ LET dep == st[s].depends[1]
       IN  dep \in DOMAIN st /\ st[dep].uses_body

\* the inner for-loop's condition, for some dep of s
BodyDepFound(st, s) ==
    \E i \in 1..Len(st[s].depends) :
        LET dep == st[s].depends[i]
        IN  dep \in DOMAIN st /\ st[dep].uses_body

\* a defect of the pass: lines 276-277 are missing, so a structure that
\* already uses the body is marked again
RECURSIVE BodyPassRemarking(_, _, _, _)
BodyPassRemarking(order, i, st, modified) ==
    IF i > Len(order) THEN [structs |-> st, modified |-> modified]
    ELSE LET s == order[i]
         IN  IF \E j \in 1..Len(st[s].depends) :
                   LET dep == st[s].depends[j]
                   IN  dep \in DOMAIN st /\ st[dep].uses_body
             THEN BodyPassRemarking(order, i + 1,
                                    [st EXCEPT ![s].uses_body = TRUE], TRUE)
             ELSE BodyPassRemarking(order, i + 1, st, modified)

\* one run of the for-loop inside `while modified`, from the i-th structure
\* on: flags are set in place, so later visits of the pass see them
RECURSIVE BodyPassFrom(_, _, _, _)
BodyPassFrom(order, i, st, modified) ==
    IF i > Len(order) THEN [structs |-> st, modified |-> modified]
    ELSE LET s == order[i]
         IN  IF st[s].uses_body THEN BodyPassFrom(order, i + 1, st, modified)
             ELSE IF BodyDepFound(st, s)
                  THEN BodyPassFrom(order, i + 1,
                                    [st EXCEPT ![s].uses_body = TRUE], TRUE)
                  ELSE BodyPassFrom(order, i + 1, st, modified)

\* a defect of the pass: line 281 (modified = True) is missing
BodyPassUnflagged(order, st) ==
    [structs |-> BodyPassFrom(order, 1, st, FALSE).structs, modified |-> FALSE]

BodyPass(order, st) == BodyPassFrom(order, 1, st, FALSE)

\* the whole `while modified` loop
RECURSIVE BodyLoop(_, _)
BodyLoop(order, st) ==
    LET r == BodyPass(order, st)
    IN  IF r.modified THEN BodyLoop(order, r.structs) ELSE r.structs

ScanBodyUsage(order, st) == BodyLoop(order, BodySeed(st))

----------------------------------------------------------------------------
(* scan_output_usage                                                       *)

\* the loop over the requests: a response naming a declared structure
RECURSIVE OutputSeedFrom(_, _, _)
OutputSeedFrom(requests, i, st) ==
    IF i > Len(requests) THEN st
    ELSE LET out == requests[i]
         IN  IF out.kind # "struct" \/ out.struct \notin DOMAIN st
             THEN OutputSeedFrom(requests, i + 1, st)
             ELSE OutputSeedFrom(requests, i + 1,
                    [st EXCEPT ![out.struct].output = TRUE,
                               ![out.struct].output_array = @ \/ out.array])

\* a defect of scan_output_usage: it works on new Structure objects, which
\* have lost what scan_body_usage has set
OutputSeedFresh(requests, st) ==
    OutputSeedFrom(requests, 1, [s \in DOMAIN st |-> Structure(st[s].data)])

OutputSeed(requests, st) == OutputSeedFrom(requests, 1, st)

\* the inner for-loop over the dependencies of an output structure s
RECURSIVE OutputDepsFrom(_, _, _, _)
OutputDepsFrom(s, j, st, modified) ==
    IF j > Len(st[s].depends) THEN [structs |-> st, modified |-> modified]
    ELSE LET dep == st[s].depends[j]
         IN  IF dep \in DOMAIN st /\ ~st[dep].output
             THEN OutputDepsFrom(s, j + 1, [st EXCEPT ![dep].output = TRUE], TRUE)
             ELSE OutputDepsFrom(s, j + 1, st, modified)

RECURSIVE OutputPassFrom(_, _, _, _)
OutputPassFrom(order, i, st, modified) ==
    IF i > Len(order) THEN [structs |-> st, modified |-> modified]
    ELSE LET s == order[i]
         IN  IF ~st[s].output THEN OutputPassFrom(order, i + 1, st, modified)
             ELSE LET r == OutputDepsFrom(s, 1, st, modified)
                  IN  OutputPassFrom(order, i + 1, r.structs, r.modified)

\* a defect of the pass: line 306 (modified = True) is missing
OutputPassUnflagged(order, st) ==
    [structs |-> OutputPassFrom(order, 1, st, FALSE).structs, modified |-> FALSE]

OutputPass(order, st) == OutputPassFrom(order, 1, st, FALSE)

RECURSIVE OutputLoop(_, _)
OutputLoop(order, st) ==
    LET r == OutputPass(order, st)
    IN  IF r.modified THEN OutputLoop(order, r.structs) ELSE r.structs

ScanOutputUsage(requests, order, st) == OutputLoop(order, OutputSeed(requests, st))

----------------------------------------------------------------------------
(* Structure.generate and generate_structures                              *)

PY_TYPES ==
    [t \in {"String", "String[]", "int", "float", "boolean", "timestamp",
            "byte[]", "UUID", "String -> int"} |->
        CASE t = "String" -> "str"
          [] t = "String[]" -> "list[str]"
          [] t = "int" -> "int"
          [] t = "float" -> "float"
          [] t = "boolean" -> "bool"
          [] t = "timestamp" -> "Timestamp"
          [] t = "byte[]" -> "bytes"
          [] t = "UUID" -> "str"
          [] t = "String -> int" -> "dict[str, int]"]

\* a defect of lines 151-153: a name that PY_TYPES does not have is passed on
to_py_type_lenient(api_type) ==
    IF api_type \in DOMAIN PY_TYPES THEN PY_TYPES[api_type] ELSE api_type

\* to_py_type: "" stands for the call that prints 'Unrecognized field type'
\* and exits with status 1
to_py_type(api_type) ==
    IF api_type \in DOMAIN PY_TYPES THEN PY_TYPES[api_type] ELSE ""

Item(kind, name) == [kind |-> kind, name |-> name, params |-> <<>>]

\* generate_class: the header `class <name>(Structure):` is written first,
\* with no type parameter; a field that is neither a struct, nor of type
\* 'any', nor of a known scalar type stops the run inside the class
generate_class(struct) ==
    LET bad == \E i \in 1..Len(struct.data.fields) :
                   LET f == struct.data.fields[i]
                   IN  f.struct = "" /\ f.type # "any" /\ to_py_type(f.type) = ""
    IN  IF bad THEN [written |-> <<Item("partial_class", struct.data.name)>>,
                     exited |-> TRUE]
        ELSE [written |-> <<Item("class", struct.data.name)>>, exited |-> FALSE]

\* a defect of lines 256-258: the array schema is never written
generate_schema_scalar(struct) == <<Item("schema", struct.data.name)>>

\* generate_schema: the object schema, then the array schema if output_array
generate_schema(struct) ==
    <<Item("schema", struct.data.name)>>
    \o (IF struct.output_array THEN <<Item("array_schema", struct.data.name)>>
        ELSE <<>>)

\* a defect of line 262: the schema is written for every structure
SchemaAlways(struct) == TRUE

\* Structure.generate: what it appends to tfile and sfile
SchemaWanted(struct) == struct.output

generate(struct) ==
    LET c == generate_class(struct)
    IN  [twritten |-> c.written,
         swritten |-> IF ~c.exited /\ SchemaWanted(struct)
                      THEN generate_schema(struct) ELSE <<>>,
         exited |-> c.exited]

\* a defect of line 323: only the first dependency is looked at
ReadyFirstOnly(st, s) ==
    Len(st[s].depends) = 0
    \/ LET d == st[s].depends[1] IN ~(d \in DOMAIN st /\ ~st[d].generated)

\* line 323 negated: every declared dependency of s is generated
Ready(st, s) ==
    ~\E i \in 1..Len(st[s].depends) :
        LET d == st[s].depends[i] IN d \in DOMAIN st /\ ~st[d].generated

\* one run of the for-loop inside `while gen`, from the i-th structure on;
\* g is [structs, tfile, sfile, gen, exited]
RECURSIVE GenPassFrom(_, _, _)
GenPassFrom(order, i, g) ==
    IF i > Len(order) \/ g.exited THEN g
    ELSE LET s == order[i]
         IN  IF g.structs[s].generated \/ ~Ready(g.structs, s)
             THEN GenPassFrom(order, i + 1, g)
             ELSE LET w == generate(g.structs[s])
                  IN  GenPassFrom(order, i + 1,
                        [structs |-> IF w.exited THEN g.structs
                                     ELSE [g.structs EXCEPT ![s].generated = TRUE],
                         tfile |-> g.tfile \o w.twritten,
                         sfile |-> g.sfile \o w.swritten,
                         gen |-> TRUE,
                         exited |-> w.exited])

GenPass(order, st, tf, sf) ==
    GenPassFrom(order, 1, [structs |-> st, tfile |-> tf, sfile |-> sf,
                           gen |-> FALSE, exited |-> FALSE])

\* a defect of line 327: the structures that need no schema are left out
LoopNamesOutputOnly(order, st) ==
    SelectSeq(order, LAMBDA s : ~st[s].generated /\ st[s].output)

\* a defect of line 327: only the first structure left is named
LoopNamesFirst(order, st) ==
    LET loop == SelectSeq(order, LAMBDA s : ~st[s].generated)
    IN  IF Len(loop) = 0 THEN loop ELSE <<loop[1]>>

\* line 327: the names of the structures left ungenerated
LoopNames(order, st) == SelectSeq(order, LAMBDA s : ~st[s].generated)

----------------------------------------------------------------------------
(* generate_calls: one stub per request                                    *)

Stub(st, out) ==
    IF out.kind = "blob" THEN Item("stub", "IO")
    ELSE [Item("stub", out.struct) EXCEPT
            !.params = <<IF out.array THEN "ARRAY_SCHEMA" ELSE "SCHEMA">>
                       \o (IF out.struct \in DOMAIN st /\ st[out.struct].uses_body
                           THEN <<"bodies">> ELSE <<>>)]

----------------------------------------------------------------------------
(* generate_types, statement by statement                                  *)

\* class Caller, lines 77-81: a field that is None is <<>>, a field that is
\* set is the one-element sequence of its value
NewCaller ==
    [root |-> <<>>, root_secret |-> <<>>, token |-> <<>>, carte |-> <<>>,
     auth_method |-> "NONE"]

\* the program has started and has read nothing yet
Init ==
    /\ api = Document({})
    /\ structs = << >>
    /\ pc = "read_api"
    /\ opened = {}
    /\ tfile = <<>>
    /\ sfile = <<>>
    /\ afile = <<>>
    /\ stdout = <<>>
    /\ error = ""
    /\ status = -1
    /\ sent = <<>>
    /\ caller = NewCaller
    /\ outcome = <<>>
    /\ prior = <<>>

Files == <<opened, tfile, sfile, afile>>
Exit == <<stdout, error, status>>
Rest == <<caller, outcome, prior>>

\* read_api (line 529) and the dict comprehension of scan_structures
ReadApiFrom(docs) ==
    /\ pc = "read_api"
    /\ api' \in docs
    /\ structs' = NewStructs(api')
    /\ pc' = "scan_body_usage"
    /\ UNCHANGED <<Files, Exit, sent, Rest>>

ReadApi == ReadApiFrom(Documents)

\* scan_body_usage, lines 268-270
SeedBodyUsage ==
    /\ pc = "scan_body_usage"
    /\ structs' = BodySeed(structs)
    /\ pc' = "body_loop"
    /\ UNCHANGED <<api, Files, Exit, sent, Rest>>

\* scan_body_usage, one iteration of `while modified`
PassBodyUsage ==
    /\ pc = "body_loop"
    /\ LET r == BodyPass(Names(api), structs)
       IN  /\ structs' = r.structs
           /\ pc' = IF r.modified THEN "body_loop" ELSE "scan_output_usage"
    /\ UNCHANGED <<api, Files, Exit, sent, Rest>>

\* scan_output_usage, lines 285-295
SeedOutputUsage ==
    /\ pc = "scan_output_usage"
    /\ structs' = OutputSeed(api.requests, structs)
    /\ pc' = "output_loop"
    /\ UNCHANGED <<api, Files, Exit, sent, Rest>>

\* scan_output_usage, one iteration of `while modified`
PassOutputUsage ==
    /\ pc = "output_loop"
    /\ LET r == OutputPass(Names(api), structs)
       IN  /\ structs' = r.structs
           /\ pc' = IF r.modified THEN "output_loop" ELSE "open_types"
    /\ UNCHANGED <<api, Files, Exit, sent, Rest>>

\* a defect of lines 510-511: the files are opened for appending
OpenTypesAppending ==
    /\ pc = "open_types"
    /\ opened' = opened \cup {"types.py", "schemas.py"}
    /\ tfile' = Append(tfile, Item("preamble", ""))
    /\ sfile' = Append(sfile, Item("preamble", ""))
    /\ pc' = "generate_structures"
    /\ UNCHANGED <<api, structs, afile, Exit, sent, Rest>>

\* generate_types, lines 510-517: both files are opened for writing, which
\* truncates them, and get their preambles (the documents declare no enums
\* and no operations)
OpenTypes ==
    /\ pc = "open_types"
    /\ opened' = opened \cup {"types.py", "schemas.py"}
    /\ tfile' = <<Item("preamble", "")>>
    /\ sfile' = <<Item("preamble", "")>>
    /\ pc' = "generate_structures"
    /\ UNCHANGED <<api, structs, afile, Exit, sent, Rest>>

\* generate_structures, one iteration of `while gen`; an unrecognized field
\* type ends the run from inside it
PassGenerate ==
    /\ pc = "generate_structures"
    /\ LET g == GenPass(Names(api), structs, tfile, sfile)
       IN  /\ structs' = g.structs
           /\ tfile' = g.tfile
           /\ sfile' = g.sfile
           /\ IF g.exited
              THEN /\ pc' = "exit"
                   /\ error' = "UnrecognizedFieldType"
                   /\ status' = 1
              ELSE /\ pc' = IF g.gen THEN "generate_structures" ELSE "check_loop"
                   /\ UNCHANGED <<error, status>>
    /\ UNCHANGED <<api, opened, afile, stdout, sent, Rest>>

\* generate_structures, lines 327-330
CheckLoop ==
    /\ pc = "check_loop"
    /\ LET loop == LoopNames(Names(api), structs)
       IN  IF Len(loop) > 0
           THEN /\ stdout' = loop
                /\ error' = "DependencyLoop"
                /\ status' = 1
                /\ pc' = "exit"
           ELSE /\ pc' = "generate_calls"
                /\ UNCHANGED Exit
    /\ UNCHANGED <<api, structs, Files, sent, Rest>>

\* generate_types, lines 520-522, and the normal end of the program
GenerateCalls ==
    /\ pc = "generate_calls"
    /\ opened' = opened \cup {"node.py"}
    /\ afile' = <<Item("preamble", "")>>
                \o [i \in 1..Len(api.requests) |-> Stub(structs, api.requests[i])]
    /\ pc' = "exit"
    /\ status' = 0
    /\ UNCHANGED <<api, structs, tfile, sfile, stdout, error, sent, Rest>>

Next ==
    \/ ReadApi
    \/ SeedBodyUsage
    \/ PassBodyUsage
    \/ SeedOutputUsage
    \/ PassOutputUsage
    \/ OpenTypes
    \/ PassGenerate
    \/ CheckLoop
    \/ GenerateCalls

Spec == Init /\ [][Next]_vars

\* number of runs of the program on one document
MaxRuns == 2

\* the files on disk and the exit of a run
Artifacts ==
    [tfile |-> tfile, sfile |-> sfile, afile |-> afile, stdout |-> stdout,
     error |-> error, status |-> status]

\* the program is started again on the document it has run on: a new
\* process reads it (line 529) and builds its Structure objects (line 310),
\* with no file open; the files of the earlier run stay on disk as they are
RunAgain ==
    /\ pc = "exit"
    /\ Len(prior) < MaxRuns - 1
    /\ prior' = Append(prior, Artifacts)
    /\ structs' = NewStructs(api)
    /\ opened' = {}
    /\ stdout' = <<>>
    /\ error' = ""
    /\ status' = -1
    /\ pc' = "scan_body_usage"
    /\ UNCHANGED <<api, tfile, sfile, afile, sent, caller, outcome>>

RerunNext ==
    \/ ReadApi
    \/ SeedBodyUsage
    \/ PassBodyUsage
    \/ SeedOutputUsage
    \/ PassOutputUsage
    \/ OpenTypes
    \/ PassGenerate
    \/ CheckLoop
    \/ GenerateCalls
    \/ RunAgain

RerunSpec == Init /\ [][RerunNext]_vars

\* scan_structures alone, on the documents without scalar fields
ReadScanApi == ReadApiFrom(ScanDocuments)

ScanNext ==
    \/ ReadScanApi
    \/ SeedBodyUsage
    \/ PassBodyUsage
    \/ SeedOutputUsage
    \/ PassOutputUsage

ScanSpec == Init /\ [][ScanNext]_vars

\* the program is sequential: it runs every statement it reaches; stated
\* for the statements up to the end of the two scans
FairSpec ==
    /\ Spec
    /\ WF_vars(ReadApi)
    /\ WF_vars(SeedBodyUsage)
    /\ WF_vars(PassBodyUsage)
    /\ WF_vars(SeedOutputUsage)
    /\ WF_vars(PassOutputUsage)

----------------------------------------------------------------------------
(* Structure.generate_class and Structure.generate_schema, field by field  *)
(*                                                                         *)
(* A field is the record [name, struct, enum, type, optional, default,     *)
(* array]: "" stands for an absent 'struct', 'enum' or 'type' key, and     *)
(* default = "null" for a field without a 'py-default' entry (field.get    *)
(* returns None).  Names are in snake case already, so to_snake leaves     *)
(* them as they are; the documents declare no min, max, min-items and      *)
(* max-items.                                                              *)

RField(name, struct, enum, type, optional, default, array) ==
    [name |-> name, struct |-> struct, enum |-> enum, type |-> type,
     optional |-> optional, default |-> default, array |-> array]

\* a defect of line 189: the 'py-default' entry is not looked at
ClassNullableAnyDefault(field) == field.optional

\* line 189: the field is declared `| None = None`
ClassNullable(field) == field.optional /\ field.default = "null"

\* lines 198-199: a field of type 'any' is left out of the class
ClassSkips(field) == field.struct = "" /\ field.enum = "" /\ field.type = "any"

\* lines 193-200: the type name of the field, "" where to_py_type exits
ClassType(field) ==
    IF field.struct # "" THEN field.struct
    ELSE IF field.enum # "" THEN field.enum
    ELSE to_py_type(field.type)

\* lines 201-203: the line written for a field; list tells `list[...]`
ClassLine(field) ==
    [kind |-> "field", name |-> field.name, type |-> ClassType(field),
     list |-> field.array, nullable |-> ClassNullable(field)]

\* the for-loop of generate_class from the i-th field on
RECURSIVE ClassLinesFrom(_, _, _)
ClassLinesFrom(fields, i, lines) ==
    IF i > Len(fields) THEN [written |-> lines, exited |-> FALSE]
    ELSE IF ClassSkips(fields[i]) THEN ClassLinesFrom(fields, i + 1, lines)
    ELSE IF ClassType(fields[i]) = "" THEN [written |-> lines, exited |-> TRUE]
    ELSE ClassLinesFrom(fields, i + 1, Append(lines, ClassLine(fields[i])))

\* generate_class: the header, then the lines of the fields
ClassText(data) ==
    ClassLinesFrom(data.fields, 1, <<[kind |-> "class", name |-> data.name]>>)

\* SCHEMA_TYPES without its last entry: <<schema type, array>>
SCHEMA_TYPES ==
    [t \in {"String", "String[]", "int", "float", "boolean", "timestamp",
            "byte[]", "UUID"} |->
        CASE t = "String" -> <<"string", FALSE>>
          [] t = "String[]" -> <<"string", TRUE>>
          [] t = "int" -> <<"integer", FALSE>>
          [] t = "float" -> <<"number", FALSE>>
          [] t = "boolean" -> <<"boolean", FALSE>>
          [] t = "timestamp" -> <<"integer", FALSE>>
          [] t = "byte[]" -> <<"string", FALSE>>
          [] t = "UUID" -> <<"string", FALSE>>]

\* A fragment of schemas.py: form tells how it is written ("dict" for a
\* dictionary display, "name" for a reference to <ref>_SCHEMA, "nullable" for
\* to_nullable_object_schema(<ref>_SCHEMA)); type lists the names of the
\* "type" entry and quoted tells whether they are written as string
\* literals; default is the "default" entry, "null" if there is none; items
\* and patternProperties hold at most one fragment; additionalProperties is
\* "absent" where the entry is not written.
Fragment(form, ref, type, quoted, default, items, pattern) ==
    [form |-> form, ref |-> ref, type |-> type, quoted |-> quoted,
     default |-> default, items |-> items, patternProperties |-> pattern,
     additionalProperties |-> "absent"]

\* a defect of lines 59 and 66: null is never admitted
schema_type_plain(a_type, struct, nullable, default) ==
    IF struct THEN Fragment("name", a_type, <<>>, TRUE, "null", <<>>, <<>>)
    ELSE Fragment("dict", "", <<a_type>>, TRUE, default, <<>>, <<>>)

schema_type(a_type, struct, nullable, default) ==
    IF struct
    THEN Fragment(IF nullable THEN "nullable" ELSE "name", a_type,
                  <<>>, TRUE, "null", <<>>, <<>>)
    ELSE Fragment("dict", "", IF nullable THEN <<a_type, "null">> ELSE <<a_type>>,
                  TRUE, default, <<>>, <<>>)

schema_array(a_type, struct, nullable, default) ==
    Fragment("dict", "", IF nullable THEN <<"array", "null">> ELSE <<"array">>,
             TRUE, default, <<schema_type(a_type, struct, FALSE, "null")>>, <<>>)

\* line 108 writes the name object without quotes when nullable is false
schema_map_string_int(nullable) ==
    Fragment("dict", "", IF nullable THEN <<"object", "null">> ELSE <<"object">>,
             nullable, "null", <<>>, <<schema_type("integer", FALSE, FALSE, "null")>>)

\* line 212: a field of type 'any' is left out of the schema
SchemaSkips(field) == field.type = "any"

\* a defect of line 217: the default is not looked at
SchemaOptionalAnyDefault(field) == field.optional

\* line 217: the local variable optional
SchemaOptional(field) == field.optional /\ field.default = "null"

\* lines 238-245: schema_array or schema_type
SchemaOf(t, struct, array, field) ==
    IF array THEN schema_array(t, struct, SchemaOptional(field), field.default)
    ELSE schema_type(t, struct, SchemaOptional(field), field.default)

\* lines 221-245: the schema written for a field; line 237 replaces the
\* field's array flag by the one of SCHEMA_TYPES
FieldSchema(field) ==
    IF field.struct # ""
    THEN IF field.struct = "Body" THEN SchemaOf("string", FALSE, field.array, field)
         ELSE SchemaOf(field.struct, TRUE, field.array, field)
    ELSE IF field.enum # "" THEN SchemaOf("string", FALSE, field.array, field)
    ELSE IF field.type = "String -> int"
         THEN schema_map_string_int(SchemaOptional(field))
    ELSE LET s_type == SCHEMA_TYPES[field.type]
         IN  SchemaOf(s_type[1], FALSE, s_type[2], field)

\* lines 211-246: the entries of "properties"
SchemaProperties(data) ==
    LET kept == SelectSeq(data.fields, LAMBDA f : ~SchemaSkips(f))
    IN  [i \in 1..Len(kept) |-> [name |-> kept[i].name, schema |-> FieldSchema(kept[i])]]

\* lines 210, 219-220: the list required
SchemaRequired(data) ==
    LET listed == SelectSeq(data.fields,
                            LAMBDA f : ~SchemaSkips(f) /\ ~SchemaOptional(f))
    IN  [i \in 1..Len(listed) |-> listed[i].name]

\* lines 206-254: <NAME>_SCHEMA; "required" is written if the list is not
\* empty
SchemaText(data) ==
    [kind |-> "schema", name |-> data.name, type |-> "object",
     properties |-> SchemaProperties(data),
     required |-> SchemaRequired(data),
     additionalProperties |-> "False"]

\* line 236: the assertion fails for a type that SCHEMA_TYPES does not have
SchemaAsserts(data) ==
    \E i \in 1..Len(data.fields) :
        LET f == data.fields[i]
        IN  /\ ~SchemaSkips(f) /\ f.struct = "" /\ f.enum = ""
            /\ f.type \notin DOMAIN SCHEMA_TYPES \cup {"String -> int"}

\* Structure.generate: the class, then the schema of an output structure,
\* then the array schema if some request returns a list of it; error tells
\* how the run ends inside it, "" if it does not
Emit(struct) ==
    LET c == ClassText(struct.data)
    IN  IF c.exited
        THEN [twritten |-> c.written, swritten |-> <<>>,
              error |-> "UnrecognizedFieldType"]
        ELSE IF ~SchemaWanted(struct)
        THEN [twritten |-> c.written, swritten |-> <<>>, error |-> ""]
        ELSE IF SchemaAsserts(struct.data)
        THEN [twritten |-> c.written, swritten |-> <<>>, error |-> "AssertionError"]
        ELSE [twritten |-> c.written,
              swritten |-> <<SchemaText(struct.data)>>
                           \o (IF struct.output_array
                               THEN <<[kind |-> "array_schema",
                                       name |-> struct.data.name]>>
                               ELSE <<>>),
              error |-> ""]

----------------------------------------------------------------------------
(* generate_operations                                                     *)

\* lines 119-121: every field is `<name>: PrincipalValue | None = None`
OperationsClass(operations) ==
    <<[kind |-> "class", name |-> operations.name]>>
    \o [i \in 1..Len(operations.fields) |->
          [kind |-> "field", name |-> operations.fields[i],
           type |-> "PrincipalValue", list |-> FALSE, nullable |-> TRUE]]

\* a defect: the schema of an operations group requires its fields
OperationsRequiredAll(operations) == operations.fields

\* lines 131-133: no "required" entry is written
OperationsRequired(operations) == <<>>

\* lines 123-133
OperationsSchema(operations) ==
    [kind |-> "schema", name |-> operations.name, type |-> "object",
     properties |-> [i \in 1..Len(operations.fields) |->
                        [name |-> operations.fields[i],
                         schema |-> schema_type("string", FALSE, TRUE, "null")]],
     required |-> OperationsRequired(operations),
     additionalProperties |-> "False"]

----------------------------------------------------------------------------
(* generate_calls, request by request                                      *)
(*                                                                         *)
(* A request is the record [kind, struct, array, function, holes, params,  *)
(* auth]: kind, struct and array describe its 'out' entry (kind = "none"   *)
(* without one), holes lists the names of the {placeholders} of its url    *)
(* in order, auth the alternatives of its 'auth' entry.  A parameter is    *)
(* [name, enum, type, flags, optional]: "" stands for an absent key and    *)
(* flags = <<>> for a parameter without 'flags'.  The requests have a      *)
(* function name.                                                          *)

Param(name, enum, type, flags, optional) ==
    [name |-> name, enum |-> enum, type |-> type, flags |-> flags,
     optional |-> optional]

\* the 'in' entry of a request: kind "none" without one, "type" with a key
\* 'type', "struct" otherwise
Input(kind, type, name, struct, array) ==
    [kind |-> kind, type |-> type, name |-> name, struct |-> struct,
     array |-> array]

Request(kind, struct, array, function, holes, params) ==
    [kind |-> kind, struct |-> struct, array |-> array, function |-> function,
     holes |-> holes, params |-> params, auth |-> "",
     inp |-> Input("none", "", "", "", FALSE)]

\* an argument of the stub's signature; default = "" if it has none
Arg(name, type, default) == [name |-> name, type |-> type, default |-> default]

\* lines 362-365: the type of the parameter, "" where to_py_type exits
ParamType(param) ==
    IF param.enum # "" THEN "types." \o param.enum ELSE to_py_type(param.type)

\* line 361: url_params[name] = py_name keeps the place of a name it has
DictPut(names, name) ==
    IF name \in Range(names) THEN names ELSE Append(names, name)

\* line 369
FlagsOf(param) == param.flags

\* lines 370-371: one argument per sub-flag
WithArgs(flags) == [i \in 1..Len(flags) |-> Arg("with_" \o flags[i], "bool", "False")]

\* lines 354-376 from the i-th parameter on; c is [url_params, flag_name,
\* flags, params, tail_params, error]
RECURSIVE ParamsFrom(_, _, _)
ParamsFrom(params, i, c) ==
    IF i > Len(params) THEN c
    ELSE LET param == params[i]
         IN  IF param.name = "" THEN [c EXCEPT !.error = "MissingParameterName"]
             ELSE IF ParamType(param) = ""
                  THEN [c EXCEPT !.url_params = DictPut(@, param.name),
                                 !.error = "UnrecognizedFieldType"]
             ELSE IF param.flags # <<>>
                  THEN ParamsFrom(params, i + 1,
                         [c EXCEPT !.url_params = DictPut(@, param.name),
                                   !.flag_name = param.name,
                                   !.flags = FlagsOf(param),
                                   !.params = @ \o WithArgs(FlagsOf(param))])
             ELSE IF param.optional
                  THEN ParamsFrom(params, i + 1,
                         [c EXCEPT !.url_params = DictPut(@, param.name),
                                   !.tail_params =
                                       Append(@, Arg(param.name,
                                                     ParamType(param) \o " | None",
                                                     "None"))])
             ELSE ParamsFrom(params, i + 1,
                    [c EXCEPT !.url_params = DictPut(@, param.name),
                              !.params = Append(@, Arg(param.name, ParamType(param), ""))])

\* lines 345-376 and 397
ScanParams(request) ==
    ParamsFrom(request.params, 1,
               [url_params |-> <<>>, flag_name |-> "", flags |-> <<>>,
                params |-> <<Arg("self", "", "")>>, tail_params |-> <<>>,
                error |-> ""])

\* lines 406-412 from the i-th placeholder on; u is [url_params, uparams,
\* error]
RECURSIVE HolesFrom(_, _, _)
HolesFrom(holes, i, u) ==
    IF i > Len(holes) THEN u
    ELSE IF holes[i] \notin Range(u.url_params)
         THEN [u EXCEPT !.error = "UnknownUrlParameter"]
    ELSE HolesFrom(holes, i + 1,
                   [u EXCEPT !.uparams = Append(@, holes[i]),
                             !.url_params = SelectSeq(@, LAMBDA n : n # holes[i])])

\* line 403
ChecksHoles(url_params) == Len(url_params) > 0

\* lines 402-419: format tells whether the url is written with .format(...)
Location(request, url_params) ==
    IF ChecksHoles(url_params)
    THEN LET u == HolesFrom(request.holes, 1,
                            [url_params |-> url_params, uparams |-> <<>>, error |-> ""])
         IN  [holes |-> request.holes, format |-> TRUE, uparams |-> u.uparams,
              url_params |-> u.url_params, error |-> u.error]
    ELSE [holes |-> request.holes, format |-> FALSE, uparams |-> <<>>,
          url_params |-> url_params, error |-> ""]

\* a defect of line 412: the substituted parameters stay in url_params
SubsAll(declared, left) == declared

\* lines 421-423: the names of the mapping params, from what is left of
\* url_params
Subs(declared, left) == left

\* lines 377-396: the arguments for the request body, what the call passes
\* as body ("" if nothing), or the error the run ends with
InputArgs(inp) ==
    IF inp.kind = "none" THEN [args |-> <<>>, body |-> "", error |-> ""]
    ELSE IF inp.kind = "type"
         THEN IF inp.type # "blob"
              THEN [args |-> <<>>, body |-> "", error |-> "UnrecognizedBodyType"]
              ELSE [args |-> <<Arg("file", "IO", ""), Arg("file_type", "str", "")>>,
                    body |-> "file", error |-> ""]
    ELSE IF inp.name = ""
         THEN [args |-> <<>>, body |-> "", error |-> "MissingBodyName"]
    ELSE [args |-> <<Arg(inp.name,
                         IF inp.array THEN "list[types." \o inp.struct \o "]"
                         ELSE "types." \o inp.struct, "")>>,
          body |-> inp.name, error |-> ""]

\* str.split(" or ") from the i-th character of s on; start is where the
\* current piece begins
RECURSIVE SplitFrom(_, _, _)
SplitFrom(s, i, start) ==
    IF i + 3 > Len(s) THEN <<SubSeq(s, start, Len(s))>>
    ELSE IF SubSeq(s, i, i + 3) = " or "
         THEN <<SubSeq(s, start, i - 1)>> \o SplitFrom(s, i + 4, i + 4)
         ELSE SplitFrom(s, i + 1, start)

\* a defect of line 335: one alternative that needs no credentials is enough
is_no_auth_some(auth) ==
    LET variants == SplitFrom(auth, 1, 1)
    IN  "none" \in Range(variants) \/ "signature" \in Range(variants)

\* lines 333-335
is_no_auth(auth) ==
    LET variants == SplitFrom(auth, 1, 1)
    IN  variants = <<"none">> \/ variants = <<"signature">>

\* line 399: request.get('auth', 'none')
AuthOf(request) == IF request.auth = "" THEN "none" ELSE request.auth

\* lines 430-455: the result type and the schema the stub validates with
Result(st, request) ==
    IF request.kind = "none" THEN [type |-> "types.Result", schema |-> "schemas.RESULT_SCHEMA",
                                   array |-> FALSE, bodies |-> FALSE]
    ELSE IF request.kind = "blob" THEN [type |-> "IO", schema |-> "blob",
                                        array |-> FALSE, bodies |-> FALSE]
    ELSE [type |-> "types." \o request.struct,
          schema |-> "schemas." \o request.struct \o "_" \o Stub(st, request).params[1],
          array |-> request.array,
          bodies |-> "bodies" \in Range(Stub(st, request).params)]

\* lines 344-472 for one request: the stub written to node.py, or the error
\* the run ends with
CallStub(st, request) ==
    LET c == ScanParams(request)
        b == InputArgs(request.inp)
        l == Location(request, c.url_params)
        query == Subs(c.url_params, l.url_params)
    IN  IF c.error # "" THEN [error |-> c.error]
        ELSE IF b.error # "" THEN [error |-> b.error]
        ELSE IF l.error # "" THEN [error |-> l.error]
        ELSE [error |-> "",
              kind |-> "stub",
              function |-> request.function,
              params |-> c.params \o b.args \o c.tail_params,
              body |-> b.body,
              location |-> [holes |-> l.holes, format |-> l.format,
                            uparams |-> l.uparams],
              flag |-> IF c.flag_name = "" THEN <<>>
                       ELSE <<[name |-> c.flag_name, items |-> c.flags]>>,
              query |-> query,
              auth |-> ~is_no_auth(AuthOf(request)),
              passes_params |-> Len(query) > 0,
              result |-> Result(st, request)]

\* the for-loops of generate_calls from the i-th request on
RECURSIVE CallsFrom(_, _, _, _)
CallsFrom(st, requests, i, written) ==
    IF i > Len(requests) THEN [written |-> written, error |-> ""]
    ELSE LET s == CallStub(st, requests[i])
         IN  IF s.error # "" THEN [written |-> written, error |-> s.error]
             ELSE CallsFrom(st, requests, i + 1, Append(written, s))

----------------------------------------------------------------------------
(* The generator on documents with fields, operations and parameters in    *)
(* full: generate_types on one output structure S, or on one request with  *)
(* parameters, and a call of a generated stub.                             *)

\* number of fields of the structure S
MaxFields == 2
\* number of declared parameters of the request
MaxParams == 2

FieldNames == <<"x", "y", "z", "w">>

\* what a field is of: <<struct, enum, type>>
StructKind(s) == <<s, "", "">>
EnumKind(e) == <<"", e, "">>
TypeKind(ty) == <<"", "", ty>>

\* the fields called name.  A struct, an enum, an int, a String and a map
\* come with every combination of optional, 'py-default' and array (an
\* entry 'py-default', where there is one, has a value); a Body and a
\* String[] come optional or not; the rest of the vocabulary, 'any' and a
\* name outside the vocabulary come plain
FieldsNamed(name) ==
    {RField(name, k[1], k[2], k[3], optional, default, array) :
        k \in {StructKind("T"), EnumKind("E"), TypeKind("int"), TypeKind("String"),
               TypeKind("String -> int")},
        optional \in BOOLEAN, default \in {"null", "0"}, array \in BOOLEAN}
    \cup {RField(name, k[1], k[2], k[3], optional, "null", FALSE) :
             k \in {StructKind("Body"), TypeKind("String[]")}, optional \in BOOLEAN}
    \cup {RField(name, "", "", ty, FALSE, "null", FALSE) :
             ty \in (DOMAIN PY_TYPES \cup {"any", "Bogus"})
                    \ {"int", "String", "String -> int", "String[]"}}

\* an operations group, the structure S with the fields of `shapes` under
\* the names x, y, ..., and a request that returns S
TypeDocument(shapes) ==
    [operations |-> <<[name |-> "Ops", fields |-> <<"view", "edit">>]>>,
     structures |-> <<[name |-> "S",
                       fields |-> [i \in 1..Len(shapes) |->
                                      [shapes[i] EXCEPT !.name = FieldNames[i]]]]>>,
     requests |-> <<Request("struct", "S", FALSE, "get_s", <<>>, <<>>)>>]

\* the declared parameters: plain, optional, of an enum, of a type outside
\* the vocabulary, the flag bundles pid {a, b} and q {c, d}, and one
\* without a name
ParamShapes ==
    {Param(name, "", "String", <<>>, optional) :
        name \in {"pid", "q"}, optional \in BOOLEAN}
    \cup {Param(name, "E", "", <<>>, FALSE) : name \in {"pid", "q"}}
    \cup {Param(name, "", "Bogus", <<>>, FALSE) : name \in {"pid", "q"}}
    \cup {Param("pid", "", "String", <<"a", "b">>, FALSE),
          Param("q", "", "String", <<"c", "d">>, FALSE)}
    \cup {Param("", "", "String", <<>>, FALSE)}

\* the placeholders of the url templates
UrlHoles == {<<>>, <<"pid">>, <<"zz">>, <<"pid", "q">>, <<"q", "zz">>, <<"pid", "pid">>}

\* the 'in' entries: none, a blob, a type that is not blob, a structure or
\* an array of it under the name body, a structure without a name
InputShapes ==
    {Input("none", "", "", "", FALSE), Input("type", "blob", "", "", FALSE),
     Input("type", "text", "", "", FALSE), Input("struct", "", "body", "T", FALSE),
     Input("struct", "", "body", "T", TRUE), Input("struct", "", "", "T", FALSE)}

\* one request without a response structure
CallDocument(holes, params, inp) ==
    [operations |-> <<>>, structures |-> <<>>,
     requests |-> <<[Request("none", "", FALSE, "get", holes,
                             [i \in 1..Len(params) |-> params[i]])
                        EXCEPT !.inp = inp]>>]

\* the 'auth' entries: "" for a request without one
AuthShapes ==
    {"", "none", "signature", "admin", "peer", "none or admin",
     "signature or none", "none or signature", "admin or root-admin",
     "none or none", "nobody"}

\* one request without parameters, with a response or without one
AuthDocument(auth, kind) ==
    [operations |-> <<>>, structures |-> <<>>,
     requests |-> <<[Request(kind, "", FALSE, "get", <<>>, <<>>)
                        EXCEPT !.auth = auth]>>]

Bundles(params) == {i \in 1..Len(params) : params[i].flags # <<>>}

\* read_api (line 529) and scan_structures (lines 309-313)
ReadEmitApi ==
    /\ pc = "read_api"
    /\ \/ \E n \in 1..MaxFields : \E shapes \in [1..n -> FieldsNamed("")] :
              api' = TypeDocument(shapes)
       \/ \E holes \in UrlHoles : \E n \in 0..MaxParams :
              \E params \in [1..n -> ParamShapes] : \E inp \in InputShapes :
                  api' = CallDocument(holes, params, inp)
       \/ \E auth \in AuthShapes : \E kind \in {"none", "blob"} :
              api' = AuthDocument(auth, kind)
    /\ structs' = ScanOutputUsage(api'.requests, Names(api'),
                                  ScanBodyUsage(Names(api'), NewStructs(api')))
    /\ pc' = "open_types"
    /\ UNCHANGED <<Files, Exit, sent, Rest>>

\* generate_types, lines 510-517: the files, the preambles, the operations
EmitOperations ==
    /\ pc = "open_types"
    /\ opened' = opened \cup {"types.py", "schemas.py"}
    /\ tfile' = <<Item("preamble", "")>>
                \o (IF Len(api.operations) = 0 THEN <<>>
                    ELSE OperationsClass(api.operations[1]))
    /\ sfile' = <<Item("preamble", "")>>
                \o [i \in 1..Len(api.operations) |-> OperationsSchema(api.operations[i])]
    /\ pc' = "generate_structures"
    /\ UNCHANGED <<api, structs, afile, Exit, sent, Rest>>

\* one run of the for-loop inside `while gen` (lines 320-326), with what
\* Structure.generate writes in full
RECURSIVE EmitPassFrom(_, _, _)
EmitPassFrom(order, i, g) ==
    IF i > Len(order) \/ g.error # "" THEN g
    ELSE LET s == order[i]
         IN  IF g.structs[s].generated \/ ~Ready(g.structs, s)
             THEN EmitPassFrom(order, i + 1, g)
             ELSE LET w == Emit(g.structs[s])
                  IN  EmitPassFrom(order, i + 1,
                        [structs |-> IF w.error # "" THEN g.structs
                                     ELSE [g.structs EXCEPT ![s].generated = TRUE],
                         tfile |-> g.tfile \o w.twritten,
                         sfile |-> g.sfile \o w.swritten,
                         gen |-> TRUE,
                         error |-> w.error])

\* the loop `while gen` (lines 317-326)
RECURSIVE EmitLoop(_, _)
EmitLoop(order, g) ==
    LET r == EmitPassFrom(order, 1, [g EXCEPT !.gen = FALSE])
    IN  IF r.gen /\ r.error = "" THEN EmitLoop(order, r) ELSE r

\* generate_structures (lines 316-330)
EmitStructures ==
    /\ pc = "generate_structures"
    /\ LET g == EmitLoop(Names(api), [structs |-> structs, tfile |-> tfile,
                                      sfile |-> sfile, gen |-> FALSE,
                                      error |-> ""])
           loop == LoopNames(Names(api), g.structs)
       IN  /\ structs' = g.structs
           /\ tfile' = g.tfile
           /\ sfile' = g.sfile
           /\ IF g.error # ""
              THEN /\ pc' = "exit"
                   /\ error' = g.error
                   /\ status' = 1
                   /\ UNCHANGED stdout
              ELSE IF Len(loop) > 0
              THEN /\ pc' = "exit"
                   /\ error' = "DependencyLoop"
                   /\ status' = 1
                   /\ stdout' = loop
              ELSE /\ pc' = "generate_calls"
                   /\ UNCHANGED Exit
    /\ UNCHANGED <<api, opened, afile, sent, Rest>>

\* generate_types, lines 520-522, and the end of the program
EmitCalls ==
    /\ pc = "generate_calls"
    /\ opened' = opened \cup {"node.py"}
    /\ LET c == CallsFrom(structs, api.requests, 1, <<Item("preamble", "")>>)
       IN  /\ afile' = c.written
           /\ error' = c.error
           /\ status' = IF c.error = "" THEN 0 ELSE 1
    /\ pc' = "exit"
    /\ UNCHANGED <<api, structs, tfile, sfile, stdout, sent, Rest>>

\* moeralib.structure.comma_separated_flags: the names of the true flags,
\* comma-joined in the order of the mapping; no value when none is true
comma_separated_flags(items, flags) ==
    LET chosen == SelectSeq(items, LAMBDA f : flags[f])
    IN  [none |-> Len(chosen) = 0, text |-> chosen]

\* the names of the arguments of a stub, in the order of its signature
ArgNames(stub) == [k \in 1..Len(stub.params) |-> stub.params[k].name]

\* the names the body of a stub reads before line 466 that are neither an
\* argument nor assigned by then: the location line (line 461) comes before
\* the flags line (lines 462-464), the mapping params (line 465) after it
Unbound(stub) ==
    {n \in Range(stub.location.uparams) : n \notin Range(ArgNames(stub))}
    \cup {n \in Range(stub.query) :
             /\ n \notin Range(ArgNames(stub))
             /\ \A k \in 1..Len(stub.flag) : stub.flag[k].name # n}

\* the body of a stub (lines 461-466) called with the arguments `given`
\* true (a flag) or set (any other argument), up to the call of
\* requests.request in Caller.call, which leaves out the parameters without
\* a value; reading an unbound name raises NameError and nothing is sent
StubCall(stub, given) ==
    LET flagged == IF Len(stub.flag) = 0 THEN [none |-> TRUE, text |-> <<>>]
                   ELSE comma_separated_flags(
                            stub.flag[1].items,
                            [f \in Range(stub.flag[1].items) |->
                                ("with_" \o f) \in given])
        ValueOf(n) == IF Len(stub.flag) > 0 /\ stub.flag[1].name = n THEN flagged
                      ELSE [none |-> n \notin given, text |-> <<n>>]
        params == IF stub.passes_params
                  THEN [i \in 1..Len(stub.query) |->
                           [name |-> stub.query[i], value |-> ValueOf(stub.query[i])]]
                  ELSE <<>>
    IN  IF Unbound(stub) # {}
        THEN [function |-> stub.function, given |-> given,
              raised |-> "NameError", params |-> <<>>]
        ELSE [function |-> stub.function, given |-> given, raised |-> "",
              params |-> SelectSeq(params, LAMBDA q : ~q.value.none)]

\* the arguments of a stub that the caller may leave out
Omissible(stub) ==
    {stub.params[i].name : i \in {j \in 1..Len(stub.params) :
                                     stub.params[j].default # ""}}

\* node.py compiles: no stub has two arguments of one name, or an argument
\* without a default after one with a default
Compiles(file) ==
    \A i \in 2..Len(file) :
        \A j, k \in 1..Len(file[i].params) :
            /\ file[i].params[j].name = file[i].params[k].name => j = k
            /\ (j < k /\ file[i].params[j].default # "") =>
                   file[i].params[k].default # ""

\* a program imports the generated node.py and calls one of its stubs
InvokeStub ==
    /\ pc = "exit" /\ status = 0 /\ sent = <<>>
    /\ Compiles(afile)
    /\ \E i \in 2..Len(afile) : \E chosen \in SUBSET Omissible(afile[i]) :
          LET required == {afile[i].params[j].name : j \in 1..Len(afile[i].params)}
                           \ Omissible(afile[i])
          IN  sent' = <<StubCall(afile[i], required \cup chosen)>>
    /\ UNCHANGED <<api, structs, pc, Files, Exit, Rest>>

EmitNext ==
    \/ ReadEmitApi
    \/ EmitOperations
    \/ EmitStructures
    \/ EmitCalls
    \/ InvokeStub

EmitSpec == Init /\ [][EmitNext]_vars

----------------------------------------------------------------------------
(* moeralib.node.caller: decode_body, decode_bodies and class Caller       *)
(*                                                                         *)
(* A JSON value is null, a string, an object (a function from its keys to  *)
(* values) or a list; Body(v) is the Structure that decode_body makes of   *)
(* the decoded object v.                                                   *)

Null == [k |-> "null"]
Str(s) == [k |-> "str", s |-> s]
Obj(o) == [k |-> "obj", o |-> o]
List(l) == [k |-> "list", l |-> l]
Body(v) == [k |-> "Body", data |-> v]

\* data.get(key, None) is not None
Has(data, key) == key \in DOMAIN data.o /\ data.o[key] # Null
\* data.get(key, None)
Get(data, key) == IF key \in DOMAIN data.o THEN data.o[key] ELSE Null

\* json.loads on the texts that the payloads carry: <<>> where it raises
\* JSONDecodeError
json_loads(encoded) ==
    CASE encoded = "{}" -> <<Obj(<<>>)>>
      [] encoded = "[]" -> <<List(<<>>)>>
      [] OTHER -> <<>>

\* validate(body, schema=schemas.BODY_SCHEMA) passes for an object
ValidBody(body) == body.k = "obj"

\* str.lower on the formats that the payloads carry
Lower(s) == IF s \in {"Application", "APPLICATION"} THEN "application" ELSE s

\* decode_body, lines 35-45: [raised, value]
decode_body(encoded, format) ==
    IF format # Null /\ Lower(format.s) = "application"
    THEN [raised |-> "", value |-> Body(Obj([text |-> Str("")]))]
    ELSE LET body == json_loads(encoded.s)
         IN  IF body = <<>>
             THEN [raised |-> "MoeraNodeError: Invalid body encoding", value |-> Null]
             ELSE IF ~ValidBody(body[1])
             THEN [raised |-> "MoeraNodeError: Invalid body", value |-> Null]
             ELSE [raised |-> "", value |-> Body(body[1])]

\* the keys decode_bodies looks at, in the order of lines 52-65
DecodedKeys ==
    <<"stories", "comments", "comment", "posting", "body", "body_preview",
      "body_src">>

RECURSIVE decode_bodies(_)
RECURSIVE DecodeItemsFrom(_, _, _)
RECURSIVE DecodeFrom(_, _, _, _)

\* the list comprehensions of lines 50, 53 and 55, from the i-th item on
DecodeItemsFrom(items, i, done) ==
    IF i > Len(items) THEN [raised |-> "", value |-> List(done)]
    ELSE LET r == decode_bodies(items[i])
         IN  IF r.raised # "" THEN [raised |-> r.raised, value |-> Null]
             ELSE DecodeItemsFrom(items, i + 1, Append(done, r.value))

\* what lines 52-65 assign to decoded[key]
DecodeKey(data, key) ==
    CASE key \in {"stories", "comments"} -> DecodeItemsFrom(data.o[key].l, 1, <<>>)
      [] key \in {"comment", "posting"} -> decode_bodies(data.o[key])
      [] key \in {"body", "body_preview"} ->
            decode_body(data.o[key], Get(data, "body_format"))
      [] key = "body_src" -> decode_body(data.o[key], Get(data, "body_src_format"))

\* lines 52-65 from the i-th of the keys on: data is read, decoded is
\* assigned to
DecodeFrom(data, keys, i, decoded) ==
    IF i > Len(keys) THEN [raised |-> "", value |-> decoded]
    ELSE IF ~Has(data, keys[i]) THEN DecodeFrom(data, keys, i + 1, decoded)
    ELSE LET r == DecodeKey(data, keys[i])
         IN  IF r.raised # "" THEN [raised |-> r.raised, value |-> Null]
             ELSE DecodeFrom(data, keys, i + 1,
                             Obj([decoded.o EXCEPT ![keys[i]] = r.value]))

\* decode_bodies, lines 48-66: decoded starts as a deep copy of data
decode_bodies(data) ==
    IF data.k = "list" THEN DecodeItemsFrom(data.l, 1, <<>>)
    ELSE DecodeFrom(data, DecodedKeys, 1, data)

\* Caller.node_url, lines 83-86
node_url(url) ==
    IF Len(url) > 0 /\ SubSeq(url, Len(url), Len(url)) = "/"
    THEN SubSeq(url, 1, Len(url) - 1) ELSE url

\* lines 115-127, the match statement: [raised, bearer]
Credential(self) ==
    CASE self.auth_method = "PEER" ->
            IF self.carte = <<>>
            THEN [raised |-> "ValueError: Carte is not set", bearer |-> <<>>]
            ELSE [raised |-> "", bearer |-> <<"carte:" \o self.carte[1]>>]
      [] self.auth_method = "ADMIN" ->
            IF self.token = <<>>
            THEN [raised |-> "ValueError: Token is not set", bearer |-> <<>>]
            ELSE [raised |-> "", bearer |-> <<"token:" \o self.token[1]>>]
      [] self.auth_method = "ROOT_ADMIN" ->
            IF self.root_secret = <<>>
            THEN [raised |-> "ValueError: Root secret is not set", bearer |-> <<>>]
            ELSE [raised |-> "", bearer |-> <<"secret:" \o self.root_secret[1]>>]
      [] OTHER -> [raised |-> "", bearer |-> <<>>]

\* a defect of line 114: the credential is looked up for every call
BearerForAll(self, auth) == Credential(self)

\* lines 113-127
Bearer(self, auth) ==
    IF auth THEN Credential(self) ELSE [raised |-> "", bearer |-> <<>>]

\* lines 109-112 and 128-129
Headers(bearer) ==
    [Accept |-> "application/json", ContentType |-> "application/json",
     Authorization |-> IF bearer = <<>> THEN <<>>
                       ELSE <<"Bearer $" \o bearer[1]>>]

\* line 145: schema is not None and schema != "blob"
Validated(schema) == schema # "None" /\ schema # "blob"

\* lines 141-151, once requests.request has returned: reply is [status_code,
\* json, data, conforms], json telling whether the payload is JSON, data
\* what r.json() returns and conforms the schemas that validate it
Respond(reply, schema, bodies) ==
    IF ~reply.json
    THEN [raised |-> "MoeraNodeError: Invalid server response",
          events |-> <<"json">>, returned |-> <<>>]
    ELSE IF reply.status_code \notin {200, 201}
    THEN [raised |-> IF "RESULT_SCHEMA" \in reply.conforms
                     THEN "MoeraNodeApiError"
                     ELSE "MoeraNodeError: Invalid server response",
          events |-> <<"json", "validate RESULT_SCHEMA">>, returned |-> <<>>]
    ELSE IF Validated(schema) /\ schema \notin reply.conforms
    THEN [raised |-> "MoeraNodeError: Invalid server response",
          events |-> <<"json", "validate " \o schema>>, returned |-> <<>>]
    ELSE LET events == <<"json">>
                       \o (IF Validated(schema) THEN <<"validate " \o schema>>
                           ELSE <<>>)
         IN  IF bodies
             THEN LET d == decode_bodies(reply.data)
                  IN  [raised |-> d.raised,
                       events |-> Append(events, "decode_bodies"),
                       returned |-> IF d.raised = "" THEN <<d.value>> ELSE <<>>]
             ELSE [raised |-> "", events |-> events, returned |-> <<reply.data>>]

\* Caller.call, lines 100-157, without a request body: [raised, sent,
\* events, returned]; reply.fails tells that requests.request raises a
\* RequestException
call(self, location, params, auth, schema, bodies, reply) ==
    LET b == Bearer(self, auth)
        request == [url |-> self.root[1] \o "/api" \o location,
                    params |-> params, headers |-> Headers(b.bearer),
                    stream |-> schema = "blob"]
    IN  IF b.raised # ""
        THEN [raised |-> b.raised, sent |-> <<>>, events |-> <<>>,
              returned |-> <<>>]
        ELSE IF self.root = <<>>
        THEN [raised |-> "TypeError", sent |-> <<>>, events |-> <<>>,
              returned |-> <<>>]
        ELSE IF reply.fails
        THEN [raised |-> "MoeraNodeConnectionError", sent |-> <<request>>,
              events |-> <<>>, returned |-> <<>>]
        ELSE LET r == Respond(reply, schema, bodies)
             IN  [raised |-> r.raised, sent |-> <<request>>,
                  events |-> r.events, returned |-> r.returned]

----------------------------------------------------------------------------
(* A program that configures a Caller and calls a node with it.            *)

\* the values of the credentials and of the node url
Secrets == {"k"}
Urls == {"https://node", "https://node/"}
NodeAuth == {"NONE", "PEER", "ADMIN", "ROOT_ADMIN"}

\* the objects with body fields that the payloads are made of: under the
\* names of the wire (bodyPreview), under those decode_bodies reads
\* (body_preview), with a null body, with texts that are no JSON or no
\* body, of the format application, without any body
Entries ==
    {Obj([body |-> Str("{}")]),
     Obj([body |-> Str("{}"), bodyPreview |-> Str("{}"), bodySrc |-> Str("{}"),
          bodyFormat |-> Str("message")]),
     Obj([body |-> Str("{}"), body_preview |-> Str("{}"), body_src |-> Str("{}"),
          body_format |-> Str("message")]),
     Obj([body |-> Null, id |-> Str("1")]),
     Obj([body |-> Str("{")]),
     Obj([body |-> Str("[]")]),
     Obj([body |-> Str("app"), body_format |-> Str("Application")]),
     Obj([body |-> Str("app"), bodyFormat |-> Str("application")]),
     Obj([id |-> Str("1")])}

\* the payloads: an entry, an entry inside posting, comment, stories or
\* comments, and a list of entries
Payloads ==
    Entries
    \cup {Obj([id |-> Str("2"), posting |-> e]) : e \in Entries}
    \cup {Obj([body |-> Str("{}"), comment |-> e]) : e \in Entries}
    \cup {Obj([stories |-> List(<<Obj([id |-> Str("3"), posting |-> e]),
                                  Obj([body |-> Str("{}")])>>)]) : e \in Entries}
    \cup {Obj([comments |-> List(<<e>>), comment |-> Null]) : e \in Entries}
    \cup {List(<<e, Obj([body |-> Str("{}")])>>) : e \in Entries}

Reply(fails, status_code, json, data, conforms) ==
    [fails |-> fails, status_code |-> status_code, json |-> json, data |-> data,
     conforms |-> conforms]

\* what the node answers: nothing (the connection fails), a payload that
\* is no JSON, a Result with an error status, and a payload with a
\* success status that the schema S validates or not
Replies ==
    {Reply(TRUE, 0, FALSE, Null, {})}
    \cup {Reply(FALSE, code, FALSE, Null, {}) : code \in {200, 201, 404}}
    \cup {Reply(FALSE, 404, TRUE, Obj([errorCode |-> Str("e"), message |-> Str("m")]),
                 {"RESULT_SCHEMA"}),
          Reply(FALSE, 404, TRUE, Obj([id |-> Str("1")]), {})}
    \cup {Reply(FALSE, 201, TRUE, Obj([id |-> Str("1")]), {"S"})}
    \cup {Reply(FALSE, 200, TRUE, p, {"S"}) : p \in Payloads}
    \cup {Reply(FALSE, 200, TRUE, Obj([id |-> Str("1")]), {})}

\* Caller.node_url
CallerNodeUrl ==
    /\ outcome = <<>>
    /\ \E url \in Urls : caller' = [caller EXCEPT !.root = <<node_url(url)>>]
    /\ UNCHANGED <<api, structs, pc, Files, Exit, sent, outcome, prior>>

\* Caller.root_secret, lines 88-89
CallerRootSecret ==
    /\ outcome = <<>>
    /\ \E secret \in Secrets : caller' = [caller EXCEPT !.root_secret = <<secret>>]
    /\ UNCHANGED <<api, structs, pc, Files, Exit, sent, outcome, prior>>

\* Caller.token, lines 91-92
CallerToken ==
    /\ outcome = <<>>
    /\ \E secret \in Secrets : caller' = [caller EXCEPT !.token = <<secret>>]
    /\ UNCHANGED <<api, structs, pc, Files, Exit, sent, outcome, prior>>

\* Caller.carte, lines 94-95
CallerCarte ==
    /\ outcome = <<>>
    /\ \E secret \in Secrets : caller' = [caller EXCEPT !.carte = <<secret>>]
    /\ UNCHANGED <<api, structs, pc, Files, Exit, sent, outcome, prior>>

\* Caller.auth_method, lines 97-98
CallerAuthMethod ==
    /\ outcome = <<>>
    /\ \E method \in NodeAuth : caller' = [caller EXCEPT !.auth_method = method]
    /\ UNCHANGED <<api, structs, pc, Files, Exit, sent, outcome, prior>>

\* a stub of node.py calls Caller.call on the configured object: the first
\* call is followed
CallerCall ==
    /\ outcome = <<>>
    /\ \E auth \in BOOLEAN : \E schema \in {"None", "blob", "S"} :
          \E bodies \in BOOLEAN : \E reply \in Replies :
              LET r == call(caller, "/x", <<>>, auth, schema, bodies, reply)
              IN  /\ sent' = sent \o r.sent
                  /\ outcome' = <<[self |-> caller, auth |-> auth,
                                   schema |-> schema, bodies |-> bodies,
                                   reply |-> reply, raised |-> r.raised,
                                   events |-> r.events,
                                   returned |-> r.returned]>>
    /\ UNCHANGED <<api, structs, pc, Files, Exit, caller, prior>>

CallerNext ==
    \/ CallerNodeUrl
    \/ CallerRootSecret
    \/ CallerToken
    \/ CallerCarte
    \/ CallerAuthMethod
    \/ CallerCall

CallerSpec == Init /\ [][CallerNext]_vars

----------------------------------------------------------------------------
(* Vocabulary of the properties                                            *)

\* the declared structures a depends on directly
DirectDeps(st, a) == Range(st[a].depends) \cap DOMAIN st

RECURSIVE Closure(_, _)
Closure(st, S) ==
    LET T == S \cup UNION {DirectDeps(st, x) : x \in S}
    IN  IF T = S THEN S ELSE Closure(st, T)

\* the declared structures a depends on, directly or transitively
DependsOn(st, a) == Closure(st, DirectDeps(st, a))

\* the positions of tfile that hold the typed definition of s
ClassAt(s) == {i \in 1..Len(tfile) : tfile[i] = Item("class", s)}
Emitted == {s \in DOMAIN structs : ClassAt(s) # {}}
Unemitted == DOMAIN structs \ Emitted
SchemaAt(s) == {i \in 1..Len(sfile) : sfile[i] = Item("schema", s)}

ScanningBody == pc \in {"read_api", "scan_body_usage", "body_loop"}
ScanningOutput == pc \in {"scan_output_usage", "output_loop"}
\* the run ended inside generate_structures
StoppedInStructures == pc = "exit" /\ "types.py" \in opened /\ "node.py" \notin opened

----------------------------------------------------------------------------
\* C1: topological validity.  Every typed definition in types.py, complete
\* or cut short, comes after the typed definitions of all the declared
\* structures its structure references; a structure referencing itself is
\* never emitted.
C1_TopologicalValidity ==
    \A i \in 1..Len(tfile) :
        tfile[i].kind \in {"class", "partial_class"} =>
            \A d \in DirectDeps(structs, tfile[i].name) :
                \E j \in 1..(i - 1) : tfile[j] = Item("class", d)

\* C1 witness: a chain of three structures was emitted, dependencies first,
\* although the document declares the dependents first
C1_Witness ==
    /\ pc = "exit" /\ status = 0
    /\ structs["A"].depends = <<"B">>
    /\ structs["B"].depends = <<"C">>
    /\ \E i, j, k \in 1..Len(tfile) :
          /\ i < j /\ j < k
          /\ tfile[i] = Item("class", "C")
          /\ tfile[j] = Item("class", "B")
          /\ tfile[k] = Item("class", "A")

----------------------------------------------------------------------------
\* every declared structure has exactly one typed definition in types.py
AllEmittedOnce == \A s \in DOMAIN structs : Cardinality(ClassAt(s)) = 1
\* no structure has two typed definitions, complete or cut short
NoneEmittedTwice ==
    \A i, j \in 1..Len(tfile) :
        (/\ i # j
         /\ tfile[i].kind \in {"class", "partial_class"}
         /\ tfile[j].kind \in {"class", "partial_class"}) =>
            tfile[i].name # tfile[j].name

\* C2 as claimed: generate_structures either emits every declared structure
\* exactly once, or aborts the run with the dependency-cycle error; it never
\* returns normally with a structure unemitted, never emits one twice.
C2_Original ==
    /\ pc = "generate_calls" => AllEmittedOnce
    /\ StoppedInStructures => error = "DependencyLoop"
    /\ NoneEmittedTwice

\* C2 as amended: generate_structures either emits every declared structure
\* exactly once, or aborts the run with status 1, with the dependency-cycle
\* error or with the unrecognized-field-type error raised while a typed
\* definition is written; it never returns normally with a structure
\* unemitted, never emits one twice.
C2_NoPartialSuccess ==
    /\ pc = "generate_calls" => AllEmittedOnce
    /\ StoppedInStructures =>
          /\ error \in {"DependencyLoop", "UnrecognizedFieldType"}
          /\ status = 1
          /\ Unemitted # {}
    /\ (pc = "exit" /\ status = 0) => AllEmittedOnce
    /\ NoneEmittedTwice

\* C2 witness: the outcome the amendment adds.  The run stopped inside
\* generate_structures on an unrecognized field type, after one structure
\* was emitted and with one still waiting for its dependency
C2_Witness ==
    /\ StoppedInStructures
    /\ error = "UnrecognizedFieldType"
    /\ Emitted # {}
    /\ \E s \in Unemitted : ~Ready(structs, s)

----------------------------------------------------------------------------
\* C3: when generate_structures ends its loop with structures unemitted, the
\* run stops with the dependency-cycle error and status 1, and the
\* diagnostic names exactly the structures without a typed definition, each
\* once; every one of them is stuck on an unemitted declared dependency.
C3_DiagnosticComplete ==
    (pc \in {"generate_calls", "exit"} /\ error # "UnrecognizedFieldType"
        /\ Unemitted # {}) =>
        /\ pc = "exit"
        /\ error = "DependencyLoop"
        /\ status = 1
        /\ Range(stdout) = Unemitted
        /\ Len(stdout) = Cardinality(Unemitted)
        /\ \A s \in Unemitted : DirectDeps(structs, s) \cap Unemitted # {}

\* C3 witness: a run stopped on a cycle of two structures and a third one
\* that depends on the cycle; all three are named
C3_Witness ==
    /\ error = "DependencyLoop"
    /\ Len(stdout) = 3
    /\ \E s \in Unemitted : s \notin DependsOn(structs, s)

----------------------------------------------------------------------------
\* every scalar field of the document has a type of the vocabulary
WellTyped ==
    \A i \in 1..Len(api.structures) :
        \A k \in 1..Len(api.structures[i].fields) :
            LET f == api.structures[i].fields[k]
            IN  f.struct # "" \/ f.type \in DOMAIN PY_TYPES

\* C4 as claimed: a document whose structures A and B reference only each
\* other (and that has no other fault) fails with the dependency-cycle
\* error and leaves no output artifact: no file was opened for writing.
C4_NoArtifacts ==
    (/\ pc = "exit"
     /\ structs["A"].depends = <<"B">>
     /\ structs["B"].depends = <<"A">>
     /\ WellTyped) =>
        /\ error = "DependencyLoop"
        /\ opened = {}

----------------------------------------------------------------------------
\* C5: after scan_body_usage, if A depends on B, directly or transitively,
\* and B uses the body, then A uses the body.
C5_BodyUsageFlowsUp ==
    ~ScanningBody =>
        \A a \in DOMAIN structs : \A b \in DependsOn(structs, a) :
            structs[b].uses_body => structs[a].uses_body

\* C5 witness: body usage reached A from C, the structure with the Body
\* field, over B; with A declared first this takes two modifying passes
C5_Witness ==
    /\ ~ScanningBody
    /\ structs["A"].depends = <<"B">>
    /\ structs["B"].depends = <<"C">>
    /\ structs["C"].depends = <<"Body">>
    /\ structs["A"].uses_body

----------------------------------------------------------------------------
\* the declared structures that requests name as their response
ResponseStructs ==
    {api.requests[i].struct : i \in {j \in 1..Len(api.requests) :
                                        api.requests[j].kind = "struct"}}
    \cap DOMAIN structs

\* C6: after scan_output_usage, if A depends on B, directly or
\* transitively, and A is output, then B is output; and every declared
\* structure that is the response (or response-array element) of a request
\* is output.
C6_OutputFlowsDown ==
    ~(ScanningBody \/ ScanningOutput) =>
        /\ \A a \in DOMAIN structs : \A b \in DependsOn(structs, a) :
              structs[a].output => structs[b].output
        /\ \A s \in ResponseStructs : structs[s].output

\* C6 witness: output reached a structure two references below the only
\* response structure
C6_Witness ==
    /\ ~(ScanningBody \/ ScanningOutput)
    /\ \E a, b \in DOMAIN structs :
          /\ ResponseStructs = {a}
          /\ b \in DependsOn(structs, a)
          /\ b \notin DirectDeps(structs, a)
          /\ structs[b].output

----------------------------------------------------------------------------
\* the visiting orders of the declared structures
VisitOrders ==
    LET order == Names(api)
    IN  {[i \in 1..Len(order) |-> order[p[i]]] : p \in Permutations(1..Len(order))}

\* C7: the flags the two scans end with do not depend on the order in which
\* the structures are visited: the scans run in any order over the same
\* document end with the flags of this run.
C7_OrderIndependent ==
    pc = "open_types" =>
        \A fresh \in {NewStructs(api)} : \A o \in VisitOrders :
            \A scanned \in {ScanBodyUsage(o, fresh)} :
                ScanOutputUsage(api.requests, o, scanned) = structs

\* C7 witness: both scans ended on the chain A -> B -> C -> Body, where
\* the order of this run needs a second modifying pass and the reverse
\* order does not
C7_Witness ==
    /\ pc = "open_types"
    /\ structs["A"].depends = <<"B">>
    /\ structs["B"].depends = <<"C">>
    /\ structs["C"].depends = <<"Body">>
    /\ structs["A"].uses_body
    /\ LET seeded == BodySeed(NewStructs(api))
           reverse == <<"C", "B", "A">>
       IN  /\ BodyPass(Names(api), BodyPass(Names(api), seeded).structs).modified
           /\ ~BodyPass(reverse, BodyPass(reverse, seeded).structs).modified

----------------------------------------------------------------------------
\* C8: both propagation loops terminate: every run gets past
\* scan_body_usage and scan_output_usage, whatever cycles and
\* self-references the document has.
C8_ScansTerminate == <>(pc = "open_types")

\* C8 witness: both loops ended on a document with a structure that
\* references itself and got its body usage by propagation
C8_Witness ==
    /\ pc = "open_types"
    /\ \E a, b \in DOMAIN structs :
          /\ a # b
          /\ a \in DirectDeps(structs, a)
          /\ b \in DirectDeps(structs, a)
          /\ "Body" \in Range(structs[b].depends)
          /\ structs[a].uses_body

----------------------------------------------------------------------------
\* C9: every emitted structure has its typed definition in types.py, and
\* its schema is in schemas.py if and only if its output flag is set; no
\* schema is written for a structure without a typed definition.
C9_SchemaIffOutput ==
    \A s \in DOMAIN structs :
        /\ structs[s].generated => s \in Emitted
        /\ s \in Emitted => (SchemaAt(s) # {} <=> structs[s].output)
        /\ SchemaAt(s) # {} => s \in Emitted

\* C9 witness: a finished run that emitted a structure with a Body field
\* that is no output, without a schema, next to an output structure with
\* its schema
C9_Witness ==
    /\ pc = "exit" /\ status = 0
    /\ \E s, o \in Emitted :
          /\ "Body" \in Range(structs[s].depends)
          /\ structs[s].uses_body /\ ~structs[s].output
          /\ SchemaAt(s) = {}
          /\ structs[o].output /\ SchemaAt(o) # {}

----------------------------------------------------------------------------
\* the instantiations of s that types.py defines
InstantiationsOf(s) ==
    {i \in 1..Len(tfile) : tfile[i].kind = "instantiation" /\ tfile[i].name = s}

\* C10 as claimed: an emitted structure has a typed definition with a
\* parameter for the body representation, and two instantiations of it, if
\* and only if it uses the body and is output; a generic structure has one
\* schema.
C10_GenericEmission ==
    \A s \in DOMAIN structs : structs[s].generated =>
        /\ (\E i \in 1..Len(tfile) :
               /\ tfile[i].kind = "class" /\ tfile[i].name = s
               /\ tfile[i].params # <<>>)
              <=> Generic(structs, s)
        /\ Generic(structs, s) =>
              /\ Cardinality(InstantiationsOf(s)) = 2
              /\ Cardinality(SchemaAt(s)) = 1

----------------------------------------------------------------------------
(* Vocabulary of the properties of EmitSpec                                *)

\* the run has read a document with the structure S
TypeRun == pc # "read_api" /\ Len(api.structures) = 1
\* the run has read a document with the request with parameters
CallRun == pc # "read_api" /\ Len(api.structures) = 0

\* the declared fields of S, and those that its schema describes
SFields == api.structures[1].fields
SDescribed == SelectSeq(SFields, LAMBDA f : f.type # "any")

\* schemas.py has the schema of S
SchemaWritten ==
    TypeRun /\ \E i \in 1..Len(sfile) : sfile[i].kind = "schema" /\ sfile[i].name = "S"
SSchema == sfile[CHOOSE i \in 1..Len(sfile) : sfile[i].kind = "schema" /\ sfile[i].name = "S"]

\* the schema written for the field called n
PropertyOf(n) ==
    LET props == SSchema.properties
    IN  props[CHOOSE i \in 1..Len(props) : props[i].name = n].schema
Required(n) == n \in Range(SSchema.required)

\* the line of types.py for the field called n
LineOf(n) ==
    tfile[CHOOSE i \in 1..Len(tfile) : tfile[i].kind = "field" /\ tfile[i].name = n]

HasDefault(f) == f.default # "null"

\* the schema fragment accepts null: its "type" lists null, or it is made
\* by to_nullable_object_schema
AdmitsNull(fragment) ==
    fragment.form = "nullable" \/ "null" \in Range(fragment.type)

----------------------------------------------------------------------------
----------------------------------------------------------------------------
\* C12 as claimed: a field that is optional and carries a default stays
\* non-nullable in the schema, has the default embedded in its schema as a
\* "default" entry, and is excluded from the schema's required list.
C12_DefaultedOptional ==
    SchemaWritten =>
        \A i \in 1..Len(SDescribed) :
            LET f == SDescribed[i]
            IN  (f.optional /\ HasDefault(f)) =>
                    /\ ~AdmitsNull(PropertyOf(f.name))
                    /\ PropertyOf(f.name).default = f.default
                    /\ ~Required(f.name)

----------------------------------------------------------------------------
----------------------------------------------------------------------------
\* the schemas of structures and of operations groups in schemas.py
ObjectSchemas == {i \in 1..Len(sfile) : sfile[i].kind = "schema"}
\* the schemas of the fields of S that are of type object
MapFields == {i \in 1..Len(SDescribed) : SDescribed[i].type = "String -> int"}

\* C14 as claimed: every object schema written to schemas.py (of an output
\* structure, of an operations group, of a String -> int field) has
\* additionalProperties false, and the schema of an operations group
\* requires none of its fields.
C14_Original ==
    /\ \A i \in ObjectSchemas :
          /\ sfile[i].additionalProperties = "False"
          /\ sfile[i].name = "Ops" => sfile[i].required = <<>>
    /\ SchemaWritten =>
          \A i \in MapFields :
              PropertyOf(SDescribed[i].name).additionalProperties = "False"

\* C14 as amended: the schema of every output structure and of every
\* operations group has additionalProperties false; the schema of an
\* operations group describes each of its fields and requires none.  The
\* schema of a String -> int field has no additionalProperties entry: it is
\* an object schema whose wildcard pattern property takes integers.
C14_ClosedSchemas ==
    /\ \A i \in ObjectSchemas :
          /\ sfile[i].additionalProperties = "False"
          /\ sfile[i].name = "Ops" =>
                /\ sfile[i].required = <<>>
                /\ [k \in 1..Len(sfile[i].properties) |-> sfile[i].properties[k].name]
                       = api.operations[1].fields
    /\ (pc \in {"generate_structures", "generate_calls", "exit"}) =>
          \A k \in 1..Len(api.operations) :
              \E i \in ObjectSchemas : sfile[i].name = api.operations[k].name
    /\ SchemaWritten =>
          \A i \in MapFields :
              LET s == PropertyOf(SDescribed[i].name)
              IN  /\ s.additionalProperties = "absent"
                  /\ s.type[1] = "object"
                  /\ s.patternProperties = <<schema_type("integer", FALSE, FALSE, "null")>>

\* C14 witness: schemas.py has the schema of the operations group and the
\* schema of S with a String -> int field
C14_Witness ==
    /\ SchemaWritten
    /\ MapFields # {}
    /\ \E i \in ObjectSchemas : sfile[i].name = "Ops"

----------------------------------------------------------------------------
\* C15 as claimed: for every field of S whose array flag is set, whatever
\* it is of, the typed definition is a sequence of the element type and the
\* schema is an array schema whose items entry is the element schema.
C15_ArrayWrapping ==
    SchemaWritten =>
        \A i \in 1..Len(SDescribed) :
            LET f == SDescribed[i]
            IN  f.array =>
                    /\ LineOf(f.name).list
                    /\ PropertyOf(f.name).type[1] = "array"
                    /\ Len(PropertyOf(f.name).items) = 1

----------------------------------------------------------------------------
----------------------------------------------------------------------------
\* the request of a document with parameters
TheRequest == api.requests[1]
\* the stubs written to node.py
Stubs == {i \in 1..Len(afile) : afile[i].kind = "stub"}

\* the fields of S with a scalar type outside the vocabulary
OutsideFields(known) ==
    {i \in 1..Len(SFields) :
        /\ SFields[i].struct = "" /\ SFields[i].enum = ""
        /\ SFields[i].type \notin known}
\* the parameters of the request with a scalar type outside the vocabulary
OutsideParams ==
    {i \in 1..Len(TheRequest.params) :
        /\ TheRequest.params[i].enum = ""
        /\ TheRequest.params[i].type \notin DOMAIN PY_TYPES}
\* the parameters of the request without a name
Nameless == {i \in 1..Len(TheRequest.params) : TheRequest.params[i].name = ""}

----------------------------------------------------------------------------
\* the placeholders of the url that name no declared parameter
Undeclared ==
    {i \in 1..Len(TheRequest.holes) :
        \A k \in 1..Len(TheRequest.params) :
            TheRequest.params[k].name # TheRequest.holes[i]}

\* C18 as claimed: for every endpoint, whether or not it declares any
\* parameters, if its url has a placeholder that names no declared
\* parameter, generation fails (with the unknown-URL-parameter error, when
\* its parameters have no fault) and no stub is emitted.
C18_UnknownPlaceholder ==
    (pc = "exit" /\ CallRun /\ Undeclared # {}) =>
        /\ status = 1
        /\ Stubs = {}
        /\ ScanParams(TheRequest).error = "" => error = "UnknownUrlParameter"

----------------------------------------------------------------------------
\* the names of the declared parameters of the request
Declared == {TheRequest.params[i].name : i \in 1..Len(TheRequest.params)}

\* C19: every declared parameter of an endpoint with a stub is used in
\* exactly one way.  A parameter that a placeholder of the url names is
\* substituted into the path and is not in the query mapping; every other
\* declared parameter is in the query mapping, once, and the stub passes
\* the mapping to the call; nothing else is substituted or in the mapping.
C19_ParameterUse ==
    (pc = "exit" /\ CallRun) =>
        \A i \in Stubs :
            LET stub == afile[i]
                path == Range(stub.location.uparams)
                query == Range(stub.query)
            IN  /\ \A n \in Declared :
                      /\ n \in path <=> n \in Range(TheRequest.holes)
                      /\ n \in query <=> n \notin path
                /\ path \cup query = Declared
                /\ Len(stub.query) = Cardinality(query)
                /\ path # {} => stub.location.format
                /\ query # {} => stub.passes_params
                /\ (sent # <<>> /\ ~stub.passes_params) => sent[1].params = <<>>

\* C19 witness: the stub of a request with the parameters pid and q and
\* the url placeholder {pid}: pid is substituted, q is the query mapping
C19_Witness ==
    /\ pc = "exit" /\ CallRun /\ Stubs # {}
    /\ Declared = {"pid", "q"}
    /\ \A i \in Stubs :
          /\ afile[i].location.uparams = <<"pid">>
          /\ afile[i].query = <<"q">>
          /\ afile[i].passes_params

----------------------------------------------------------------------------
\* the flag bundles of the request
BundleParams == Bundles(TheRequest.params)

\* C20: an endpoint declaring a flag bundle gets one boolean stub argument
\* per sub-flag, false by default.  At call time the sub-flags whose
\* argument is true are recombined: the call does not fail, and the query
\* parameter of the bundle is their comma-joined list in declaration order;
\* when none is true the parameter is not in the query set at all.
C20_FlagBundling ==
    (pc = "exit" /\ CallRun) =>
        \A i \in Stubs : \A b \in BundleParams :
            LET stub == afile[i]
                bundle == TheRequest.params[b]
                truthy == SelectSeq(bundle.flags,
                                    LAMBDA f : sent # <<>> /\ ("with_" \o f) \in sent[1].given)
                inquery == IF sent = <<>> THEN <<>>
                           ELSE SelectSeq(sent[1].params, LAMBDA q : q.name = bundle.name)
            IN  /\ \A k \in 1..Len(bundle.flags) :
                      Arg("with_" \o bundle.flags[k], "bool", "False")
                          \in Range(stub.params)
                /\ sent # <<>> =>
                       /\ sent[1].raised = ""
                       /\ bundle.name \in Range(stub.query) =>
                              IF truthy = <<>> THEN inquery = <<>>
                              ELSE /\ Len(inquery) = 1
                                   /\ inquery[1].value.text = truthy

----------------------------------------------------------------------------
\* C21: a stub passes auth=False to the call, so that no credentials of the
\* caller are needed, if and only if the 'auth' entry of its request is
\* exactly "none" or exactly "signature", a request without the entry
\* counting as "none"; any other entry, alternatives such as "none or admin"
\* included, leaves the stub requiring credentials.
C21_NoAuthMarking ==
    (pc = "exit" /\ CallRun) =>
        \A i \in Stubs :
            ~afile[i].auth <=> TheRequest.auth \in {"", "none", "signature"}

\* C21 witness: the stub of a request with auth "none or admin" requires
\* credentials
C21_Witness ==
    /\ pc = "exit" /\ CallRun /\ Stubs # {}
    /\ TheRequest.auth = "none or admin"
    /\ \A i \in Stubs : afile[i].auth

----------------------------------------------------------------------------
(* Vocabulary of the properties of CallerSpec                              *)

\* the call that was made
TheCall == outcome[1]
\* a call was made
Called == Len(outcome) = 1
\* the credential of the kind that auth_method selects: <<prefix, field>>
Selected(self) ==
    CASE self.auth_method = "PEER" -> <<"carte:", self.carte>>
      [] self.auth_method = "ADMIN" -> <<"token:", self.token>>
      [] self.auth_method = "ROOT_ADMIN" -> <<"secret:", self.root_secret>>
\* the requests sent with an Authorization header
Authorized == {k \in 1..Len(sent) : sent[k].headers.Authorization # <<>>}

\* C22: Caller.call attaches an Authorization header only when the endpoint
\* requires it.  Whatever the credentials and the auth method, a call with
\* auth=False sends no Authorization header.  A call with auth=True and the
\* method PEER, ADMIN or ROOT_ADMIN fails before any request is sent if the
\* carte, token or root secret is not set, and otherwise every request it
\* sends carries that credential, and one is sent if the node url is set;
\* with the method NONE it sends no Authorization header.
C22_AuthorizationHeader ==
    Called =>
        LET self == TheCall.self
        IN  /\ ~TheCall.auth => Authorized = {}
            /\ (TheCall.auth /\ self.auth_method = "NONE") => Authorized = {}
            /\ (TheCall.auth /\ self.auth_method # "NONE") =>
                  IF Selected(self)[2] = <<>>
                  THEN /\ sent = <<>>
                       /\ TheCall.raised \in {"ValueError: Carte is not set",
                                              "ValueError: Token is not set",
                                              "ValueError: Root secret is not set"}
                  ELSE /\ \A k \in 1..Len(sent) :
                             sent[k].headers.Authorization =
                                 <<"Bearer $" \o Selected(self)[1]
                                     \o Selected(self)[2][1]>>
                       /\ self.root # <<>> => Len(sent) = 1

\* C22 witness: a call with auth=True of a Caller with the method ADMIN and
\* a token has sent a request with the token
C22_Witness ==
    /\ Called /\ TheCall.auth /\ TheCall.self.auth_method = "ADMIN"
    /\ Len(sent) = 1
    /\ sent[1].headers.Authorization = <<"Bearer $token:k">>

----------------------------------------------------------------------------
\* the requests whose response is a declared structure
StructResponses ==
    {i \in 1..Len(api.requests) :
        api.requests[i].kind = "struct" /\ api.requests[i].struct \in DOMAIN structs}

\* C23: in a run that ends with status 0, the stub of every request whose
\* response is a declared structure S validates with the schema of S, the
\* array schema if the response is an array of S and the object schema
\* otherwise, and schemas.py defines the schema that the stub names: S is
\* an output structure, and its array schema is written whenever a request
\* returns a list of S.
C23_StubSchemaDefined ==
    (pc = "exit" /\ status = 0) =>
        \A i \in StructResponses :
            LET r == api.requests[i]
                stub == afile[i + 1]
            IN  /\ stub.kind = "stub" /\ stub.name = r.struct
                /\ stub.params[1] = IF r.array THEN "ARRAY_SCHEMA" ELSE "SCHEMA"
                /\ structs[r.struct].output
                /\ \E k \in 1..Len(sfile) :
                      sfile[k] = Item(IF r.array THEN "array_schema" ELSE "schema",
                                      r.struct)

\* C23 witness: a run ended with status 0 on a document with a request that
\* returns a list of a declared structure and one that returns the
\* structure itself
C23_Witness ==
    /\ pc = "exit" /\ status = 0
    /\ \E i, j \in StructResponses :
          /\ api.requests[i].array /\ ~api.requests[j].array
          /\ api.requests[i].struct = api.requests[j].struct
          /\ afile[i + 1].params[1] = "ARRAY_SCHEMA"
          /\ afile[j + 1].params[1] = "SCHEMA"

----------------------------------------------------------------------------
\* the node has answered the call with a success status
Succeeded ==
    /\ Called /\ Len(sent) = 1
    /\ ~TheCall.reply.fails /\ TheCall.reply.status_code \in {200, 201}

\* C24: a call for a blob output (schema "blob") that the node answers with
\* a success status hands the response back to the stub without decoding
\* its payload as JSON and without validating it against a schema.
C24_BlobRaw ==
    (Succeeded /\ TheCall.schema = "blob") =>
        /\ TheCall.raised = ""
        /\ "json" \notin Range(TheCall.events)
        /\ \A k \in 1..Len(TheCall.events) :
              TheCall.events[k] \notin {"validate S", "validate RESULT_SCHEMA"}

----------------------------------------------------------------------------
\* C25: idempotence.  A run of the generator on the document of an earlier
\* run leaves the same types.py, schemas.py and node.py and ends with the
\* same exit status and diagnostic as that run: the artifacts are a
\* function of the document alone.
C25_Idempotence ==
    (pc = "exit" /\ Len(prior) > 0) =>
        \A k \in 1..Len(prior) : prior[k] = Artifacts

\* C25 witness: the second run on a document with an output structure and
\* a request has ended with status 0 and stubs in node.py
C25_Witness ==
    /\ pc = "exit" /\ Len(prior) = 1 /\ status = 0
    /\ Len(sfile) > 1 /\ Len(afile) > 1
    /\ prior[1].afile = afile

----------------------------------------------------------------------------
\* the declared structures with a field whose struct is Body
BodySeeds == {s \in DOMAIN structs : "Body" \in Range(structs[s].depends)}
\* the declared structures from which S is reached over struct fields,
\* those of S included
Reaching(S) ==
    {a \in DOMAIN structs : a \in S \/ DependsOn(structs, a) \cap S # {}}
\* the declared structures reached from S over struct fields, those of S
\* included
ReachedFrom(S) == S \cup UNION {DependsOn(structs, a) : a \in S}

\* C26: the analyzer computes least fixed points.  At no point of a run does
\* a structure have uses_body set without having a Body field or reaching a
\* declared structure that has one over struct fields, or output set
\* without being the response structure of a request or reached from one
\* over struct fields; when the scans are over, exactly those structures
\* have the flags.
C26_LeastFixedPoints ==
    pc # "read_api" =>
        /\ \A s \in DOMAIN structs :
              /\ structs[s].uses_body => s \in Reaching(BodySeeds)
              /\ structs[s].output => s \in ReachedFrom(ResponseStructs)
        /\ ~(ScanningBody \/ ScanningOutput) =>
              \A s \in DOMAIN structs :
                  /\ structs[s].uses_body <=> s \in Reaching(BodySeeds)
                  /\ structs[s].output <=> s \in ReachedFrom(ResponseStructs)

\* C26 witness: after the scans A uses the body over B, B is output as a
\* dependency of the response structure A, and C, unrelated, has no flag
C26_Witness ==
    /\ ~(ScanningBody \/ ScanningOutput)
    /\ structs["A"].depends = <<"B">>
    /\ structs["B"].depends = <<"Body">>
    /\ ResponseStructs = {"A"}
    /\ structs["A"].uses_body /\ structs["B"].output
    /\ ~structs["C"].uses_body /\ ~structs["C"].output

----------------------------------------------------------------------------
\* C27: the analyzer and the emitter annotate flags monotonically.  In
\* every step of a run after the document is read, a uses_body, output,
\* output_array or generated flag that is true stays true, and the document,
\* the set of structures, their dependency lists and their field data stay
\* as they are.
C27_MonotoneFlags ==
    [][pc # "read_api" =>
          /\ api' = api
          /\ DOMAIN structs' = DOMAIN structs
          /\ \A s \in DOMAIN structs :
                /\ structs[s].uses_body => structs'[s].uses_body
                /\ structs[s].output => structs'[s].output
                /\ structs[s].output_array => structs'[s].output_array
                /\ structs[s].generated => structs'[s].generated
                /\ structs'[s].depends = structs[s].depends
                /\ structs'[s].data = structs[s].data]_vars

\* C27 witness: at the end of a run a structure has all four flags, and a
\* generated structure depends on another structure
C27_Witness ==
    /\ pc = "exit" /\ status = 0
    /\ \E s \in DOMAIN structs :
          /\ structs[s].uses_body /\ structs[s].output
          /\ structs[s].output_array /\ structs[s].generated
    /\ \E a, b \in DOMAIN structs : b \in DirectDeps(structs, a) /\ structs[a].generated

----------------------------------------------------------------------------
\* the fields that carry an encoded body, under the names of the wire and
\* under the names of the generated classes
BodyFields == {"body", "bodyPreview", "bodySrc", "body_preview", "body_src"}
\* the fields that decode_bodies descends into
Nesting == {"stories", "comments", "comment", "posting"}

RECURSIVE AllDecoded(_)
\* every non-null body field of v, at the top level or nested, is a Body
AllDecoded(v) ==
    CASE v.k = "list" -> \A i \in 1..Len(v.l) : AllDecoded(v.l[i])
      [] v.k = "obj" ->
            \A key \in DOMAIN v.o :
                /\ (key \in BodyFields /\ v.o[key] # Null) => v.o[key].k = "Body"
                /\ key \in Nesting => AllDecoded(v.o[key])
      [] OTHER -> TRUE

\* C28: a call with bodies=True that the node answers with a payload its
\* schema validates, and that returns, returns the payload with every
\* non-null body, body-preview and body-source field decoded, at the top
\* level and inside stories, comments, comment and posting.
C28_BodiesDecoded ==
    (/\ Succeeded /\ TheCall.bodies /\ TheCall.schema = "S"
     /\ TheCall.raised = "" /\ "S" \in TheCall.reply.conforms)
        => /\ "decode_bodies" \in Range(TheCall.events)
           /\ Len(TheCall.returned) = 1
           /\ AllDecoded(TheCall.returned[1])

----------------------------------------------------------------------------
\* C29: the check of the url placeholders raises no spurious error.  If
\* every placeholder of the url names a declared parameter of the request,
\* the run does not end with the unknown-URL-parameter error, even when two
\* placeholders name the same parameter.
C29_NoSpuriousUnknown ==
    (pc = "exit" /\ CallRun /\ Undeclared = {}) => error # "UnknownUrlParameter"

----------------------------------------------------------------------------
\* C30: every emitted stub has a well-formed parameter list.  Whatever the
\* order in which plain parameters, optional parameters, flag bundles and
\* a request body are declared, no argument without a default value comes
\* after an argument with one, and every name of a flag bundle that the
\* url or the query mapping of the stub uses is assigned before it is used.
C30_WellFormedParameters ==
    (pc = "exit" /\ CallRun) =>
        \A i \in Stubs :
            /\ \A j, k \in 1..Len(afile[i].params) :
                  (j < k /\ afile[i].params[j].default # "") =>
                      afile[i].params[k].default # ""
            /\ Unbound(afile[i]) = {}

====
